---- MODULE Spec2Model ----
(***************************************************************************)
(* Model of src/modules/commands/command.js: the Command base class.       *)
(*                                                                         *)
(* The class is driven by its callers: `new Command(client, data)` and the *)
(* three response helpers.  The collaborators it talks to (the command     *)
(* manager, the plugin index, the logger, the REST router and the message  *)
(* formatter) are recorded call by call in `trace` and `requests`, so that *)
(* what the class does to them, and in which order, is part of the state.  *)
(***************************************************************************)
EXTENDS Integers, Sequences, FiniteSets, TLC

(***************************************************************************)
(* Bounds of the model.                                                    *)
(***************************************************************************)
\* Number of invocations (constructions and method calls) in one behaviour.
MaxOps == 2

(***************************************************************************)
(* JavaScript values.  Every value is a record tagged with `t`; the payload*)
(* field is named after the type so that fields never mix TLA+ types.      *)
(***************************************************************************)
Undefined == [t |-> "undefined"]
Null == [t |-> "null"]
Str(s) == [t |-> "string", s |-> s]
Num(n) == [t |-> "number", n |-> n]
Bool(b) == [t |-> "boolean", b |-> b]

\* The `typeof` operator: null is reported as "object".
Typeof(v) == IF v.t = "null" THEN "object" ELSE v.t

\* ToBoolean, as used by `!x` and `x ? a : b`.
Truthy(v) ==
    CASE v.t = "undefined" -> FALSE
      [] v.t = "null" -> FALSE
      [] v.t = "boolean" -> v.b
      [] v.t = "string" -> v.s # ""
      [] v.t = "number" -> v.n # 0
      [] OTHER -> TRUE

\* Does the property read `v.p` throw?  Only on null and undefined.
GetThrows(v) == v.t \in {"null", "undefined"}

\* The value of the property read `v.p` when it does not throw: a primitive
\* without such a property, or an object that lacks it, yields undefined.
Get(v, p) == IF v.t = "object" /\ p \in DOMAIN v THEN v[p] ELSE Undefined

(***************************************************************************)
(* Inputs.                                                                 *)
(***************************************************************************)
Descriptor(name, description, internal) ==
    [t |-> "object", name |-> name, description |-> description,
     internal |-> internal]

\* Command data handed to the constructor: well-formed descriptors, two the
\* manager rejects (name too short, empty description), and non-objects.
Descriptors ==
    { Descriptor(Str("new"), Str("Create a ticket"), Bool(TRUE)),
      Descriptor(Str("add"), Str("Add a member"), Bool(FALSE)),
      Descriptor(Str("stats"), Str("Show stats"), Undefined),
      Descriptor(Str("ab"), Str("Too short"), Bool(FALSE)),
      Descriptor(Str("close"), Str(""), Bool(TRUE)) }

NonObjects == { Undefined, Null, Str("x"), Num(42) }

DataValues == Descriptors \cup NonObjects

\* Interactions received from the gateway; only id, token and channel_id are
\* read by this class.
Interactions ==
    { [id |-> "i1", token |-> "tok1", channel_id |-> "c1"],
      [id |-> "i2", token |-> "tok2", channel_id |-> "c2"] }

\* Message content handed to sendResponse and editResponse.
Embed == [t |-> "object", title |-> Str("Ticket")]
Contents == { Str("hello"), Embed, Null }

\* The plugins the plugin manager may hold when commands are constructed.
\* A plugin need not declare a command list.
PluginA == [name |-> "greeter"]
PluginB == [name |-> "roster", commands |-> <<Str("add")>>]
PluginC == [name |-> "extras", commands |-> <<Str("add"), Str("new")>>]
PluginIndexes == { <<>>, <<PluginA, PluginB, PluginC>> }

\* client.user.id, the application id.
AppId == "app"

VARIABLES ops, trace, requests, registry, plugins

vars == <<ops, trace, requests, registry, plugins>>


(***************************************************************************)
(* Collaborators.  The trace records every call the class makes on them.   *)
(***************************************************************************)
Ev(i, call, arg, result) == [op |-> i, call |-> call, arg |-> arg, result |-> result]

\* Length limits of a command's name and description, as documented on the
\* constructor and enforced by the manager.
NameMin == 3
NameMax == 32
DescriptionMin == 1
DescriptionMax == 100

\* manager.check(data): accepts a descriptor whose name and description are
\* strings within the limits, throws otherwise.
CheckAccepts(data) ==
    /\ Get(data, "name").t = "string"
    /\ Len(Get(data, "name").s) \in NameMin..NameMax
    /\ Get(data, "description").t = "string"
    /\ Len(Get(data, "description").s) \in DescriptionMin..DescriptionMax

CheckError == [type |-> "Error", from |-> "manager.check"]

\* manager.register(cmd): stores the command under its name, throws when a
\* command of that name is already registered.
RegisterAccepts(reg, inst) == inst.name \notin reg

RegisterError == [type |-> "Error", from |-> "manager.register"]

\* p => p.commands?.includes(name)
PluginDeclares(p, name) ==
    /\ "commands" \in DOMAIN p
    /\ \E k \in DOMAIN p.commands : p.commands[k] = name

\* plugins.find(predicate): the first plugin that satisfies it, else undefined.
PluginsFind(plugs, name) ==
    IF \E k \in DOMAIN plugs : PluginDeclares(plugs[k], name)
    THEN plugs[CHOOSE k \in DOMAIN plugs :
                  /\ PluginDeclares(plugs[k], name)
                  /\ \A j \in 1..(k - 1) : ~PluginDeclares(plugs[j], name)]
    ELSE Undefined

\* flags(secret) of utils/discord: the ephemeral bit (1 << 6) or nothing.
Flags(secret) == IF secret THEN Num(64) ELSE Undefined

\* createMessage(client, channel_id, content) of utils/discord: the content
\* resolved against the channel into the fields of a message payload.
CreateMessage(channel_id, content) ==
    [t |-> "object", channel |-> channel_id, resolved |-> content]

\* A request handed to the REST router; it settles later, on its own.
Request(i, method, route, options) ==
    [op |-> i, method |-> method, route |-> route, options |-> options,
     state |-> "pending"]

CommandsRoute == <<"applications", AppId, "commands">>
CallbackRoute(interaction) ==
    <<"interactions", interaction.id, interaction.token, "callback">>
MessagesRoute(interaction) ==
    <<"interactions", interaction.id, interaction.token, "messages">>

(***************************************************************************)
(* new Command(client, data)                                               *)
(***************************************************************************)
NoError == [type |-> "none"]
TypeError(message) == [type |-> "TypeError", message |-> message]

\* Variant: the guard only rejects a missing argument.
GuardThrows_OnlyUndefined(data) == Typeof(data) = "undefined"

\* if (typeof data !== 'object') throw new TypeError(...)
GuardThrows(data) == Typeof(data) # "object"

\* this.name = data.name; ... this.internal = data.internal;
Fields(i, data) ==
    [id |-> i,
     name |-> Get(data, "name"),
     description |-> Get(data, "description"),
     staff_only |-> Get(data, "staff_only"),
     permissions |-> Get(data, "permissions"),
     options |-> Get(data, "options"),
     internal |-> Get(data, "internal"),
     plugin |-> Undefined]

\* Variant: the plugin is looked up whatever the internal flag says.
LookupPlugin_Always(i, inst, plugs) ==
    [events |-> <<Ev(i, "plugins.find", inst.name, "returned")>>,
     plugin |-> PluginsFind(plugs, inst.name)]

\* if (!this.internal) this.plugin = this.client.plugins.plugins.find(...)
LookupPlugin(i, inst, plugs) ==
    IF ~Truthy(inst.internal)
    THEN [events |-> <<Ev(i, "plugins.find", inst.name, "returned")>>,
          plugin |-> PluginsFind(plugs, inst.name)]
    ELSE [events |-> <<>>, plugin |-> Undefined]

\* Variant: the command instance is posted instead of the descriptor.
PublishOptions_Instance(inst, data) == [data |-> inst]

\* .commands.post({ data })
PublishOptions(inst, data) == [data |-> data]

\* `Loaded ${internal}"${this.name}" command`
LoadedMessage(inst) ==
    [text |-> "Loaded", internal |-> Truthy(inst.internal), name |-> inst.name]

\* Variant: the command is posted before it is registered.
SuccessEvents_PostFirst(i, inst, data) ==
    << Ev(i, "commands.post", PublishOptions(inst, data), "returned"),
       Ev(i, "manager.register", inst, "returned"),
       Ev(i, "log.commands", LoadedMessage(inst), "returned") >>

\* The calls made from a successful register call to the end of the
\* constructor, in program order.
SuccessEvents(i, inst, data) ==
    << Ev(i, "manager.register", inst, "returned"),
       Ev(i, "commands.post", PublishOptions(inst, data), "returned"),
       Ev(i, "log.commands", LoadedMessage(inst), "returned") >>

\* The calls made after the catch block when it does not leave the constructor.
PublishEvents(i, inst, data) ==
    << Ev(i, "commands.post", PublishOptions(inst, data), "returned"),
       Ev(i, "log.commands", LoadedMessage(inst), "returned") >>

\* Variant: register is called outside any try block.
TryCatchesRegister_Missing == FALSE

\* try { this.manager.register(this) } catch (e) { ... }
TryCatchesRegister == TRUE

\* Variant: the handler swallows the error without logging it.
LogError_Swallowed(i, e) == <<>>

\* catch (e) { return this.client.log.error(e); }: the handler logs the error
LogError(i, e) == << Ev(i, "log.error", e, "returned") >>

\* Variant: the handler logs and falls through to the publish.
CatchReturns_FallsThrough == FALSE

\* ... and leaves the constructor.
CatchReturns == TRUE

Result(outcome, error, events, reg, inst) ==
    [outcome |-> outcome, error |-> error, events |-> events, reg |-> reg,
     instance |-> inst]

\* Lines 100-110: register, publish, confirm.
Registration(i, inst, data, reg, before) ==
    IF RegisterAccepts(reg, inst)
    THEN Result("returned", NoError, before \o SuccessEvents(i, inst, data),
                reg \cup {inst.name}, inst)
    ELSE IF ~TryCatchesRegister
    THEN Result("threw", RegisterError,
                before \o <<Ev(i, "manager.register", inst, "threw")>>, reg, inst)
    ELSE Result("returned", NoError,
                before \o <<Ev(i, "manager.register", inst, "threw")>>
                       \o LogError(i, RegisterError)
                       \o (IF CatchReturns THEN <<>>
                           ELSE PublishEvents(i, inst, data)),
                reg, inst)

\* The whole constructor, for the i-th invocation.
Construct(i, data, plugs, reg) ==
    IF GuardThrows(data)
    THEN Result("threw", TypeError("Expected type of data to be an object"),
                <<>>, reg, Undefined)
    ELSE IF GetThrows(data)
    THEN Result("threw", TypeError("Cannot read properties of null"),
                <<>>, reg, Undefined)
    ELSE LET look == LookupPlugin(i, Fields(i, data), plugs)
             inst == [Fields(i, data) EXCEPT !.plugin = look.plugin]
         IN  IF ~CheckAccepts(data)
             THEN Result("threw", CheckError,
                         look.events \o <<Ev(i, "manager.check", data, "threw")>>,
                         reg, inst)
             ELSE Registration(i, inst, data, reg,
                      look.events \o <<Ev(i, "manager.check", data, "returned")>>)

\* The requests a sequence of calls hands to the REST router.
RECURSIVE RequestsOf(_)
RequestsOf(events) ==
    IF events = <<>> THEN <<>>
    ELSE LET e == Head(events)
         IN  (IF e.call = "commands.post"
              THEN <<Request(e.op, "POST", CommandsRoute, e.arg)>>
              ELSE <<>>) \o RequestsOf(Tail(events))

New(data) ==
    /\ Len(ops) < MaxOps
    /\ LET i == Len(ops) + 1
           r == Construct(i, data, plugins, registry)
       IN  /\ ops' = Append(ops, [kind |-> "new", data |-> data,
                                  outcome |-> r.outcome, error |-> r.error,
                                  instance |-> r.instance])
           /\ trace' = trace \o r.events
           /\ requests' = requests \o RequestsOf(r.events)
           /\ registry' = r.reg
    /\ UNCHANGED plugins

(***************************************************************************)
(* The response helpers.  They are async methods of a constructed command: *)
(* deferResponse and editResponse run to completion when called;           *)
(* sendResponse suspends at its await when the content is object-typed.    *)
(***************************************************************************)
\* Interaction callback types.
TypeDeferred == 5
TypeMessage == 4

\* The commands that exist: constructions that handed an instance back.
Instances == { k \in DOMAIN ops : ops[k].kind = "new" /\ ops[k].outcome = "returned" }

\* Variant: the deferred response is always ephemeral.
DeferPayload_AlwaysSecret(secret) == [type |-> TypeDeferred, flags |-> Flags(TRUE)]

\* { type: 5, flags: flags(secret) }
DeferPayload(secret) == [type |-> TypeDeferred, flags |-> Flags(secret)]

DeferResponse(self, interaction, secret) ==
    /\ Len(ops) < MaxOps
    /\ LET i == Len(ops) + 1
           options == [data |-> DeferPayload(secret)]
       IN  /\ ops' = Append(ops, [kind |-> "deferResponse", self |-> self,
                                  interaction |-> interaction, secret |-> secret,
                                  outcome |-> "resolved"])
           /\ trace' = Append(trace, Ev(i, "callback.post",
                                        [route |-> CallbackRoute(interaction),
                                         options |-> options], "returned"))
           /\ requests' = Append(requests,
                  Request(i, "POST", CallbackRoute(interaction), options))
    /\ UNCHANGED <<registry, plugins>>

\* if (typeof content === 'object')
ContentIsObject(content) == Typeof(content) = "object"

\* Variant: the formatter's output is sent as plain content.
SendDataPayload_AsContent(secret, formatted) ==
    [type |-> TypeMessage, flags |-> Flags(secret), content |-> formatted]

\* { type: 4, flags: flags(secret), data: await createMessage(...) }
SendDataPayload(secret, formatted) ==
    [type |-> TypeMessage, flags |-> Flags(secret), data |-> formatted]

\* { type: 4, flags: flags(secret), content }
SendContentPayload(secret, content) ==
    [type |-> TypeMessage, flags |-> Flags(secret), content |-> content]

\* sendResponse up to its await, or to its end when there is none.
SendResponse(self, interaction, content, secret) ==
    /\ Len(ops) < MaxOps
    /\ LET i == Len(ops) + 1
           options == [data |-> SendContentPayload(secret, content)]
           op == [kind |-> "sendResponse", self |-> self,
                  interaction |-> interaction, content |-> content,
                  secret |-> secret]
       IN  IF ContentIsObject(content)
           THEN /\ ops' = Append(ops, op @@ [outcome |-> "awaiting"])
                /\ trace' = Append(trace, Ev(i, "createMessage",
                                [channel_id |-> interaction.channel_id,
                                 content |-> content], "pending"))
                /\ UNCHANGED requests
           ELSE /\ ops' = Append(ops, op @@ [outcome |-> "resolved"])
                /\ trace' = Append(trace, Ev(i, "callback.post",
                                [route |-> CallbackRoute(interaction),
                                 options |-> options], "returned"))
                /\ requests' = Append(requests,
                       Request(i, "POST", CallbackRoute(interaction), options))
    /\ UNCHANGED <<registry, plugins>>

\* The formatter's promise is fulfilled and sendResponse runs on to its end.
SendResume(i) ==
    /\ ops[i].kind = "sendResponse"
    /\ ops[i].outcome = "awaiting"
    /\ LET op == ops[i]
           formatted == CreateMessage(op.interaction.channel_id, op.content)
           options == [data |-> SendDataPayload(op.secret, formatted)]
       IN  /\ ops' = [ops EXCEPT ![i].outcome = "resolved"]
           /\ trace' = trace \o
                  << Ev(i, "createMessage", formatted, "fulfilled"),
                     Ev(i, "callback.post",
                        [route |-> CallbackRoute(op.interaction),
                         options |-> options], "returned") >>
           /\ requests' = Append(requests,
                  Request(i, "POST", CallbackRoute(op.interaction), options))
    /\ UNCHANGED <<registry, plugins>>

\* Variant: both fields are always sent.
EditOptions_Both(content) == [embeds |-> content, content |-> content]

\* { embeds: content } or { content }
EditOptions(content) ==
    IF ContentIsObject(content) THEN [embeds |-> content] ELSE [content |-> content]

EditResponse(self, interaction, content) ==
    /\ Len(ops) < MaxOps
    /\ LET i == Len(ops) + 1
           options == EditOptions(content)
       IN  /\ ops' = Append(ops, [kind |-> "editResponse", self |-> self,
                                  interaction |-> interaction, content |-> content,
                                  outcome |-> "resolved"])
           /\ trace' = Append(trace, Ev(i, "messages.patch",
                                        [route |-> MessagesRoute(interaction),
                                         options |-> options], "returned"))
           /\ requests' = Append(requests,
                  Request(i, "PATCH", MessagesRoute(interaction), options))
    /\ UNCHANGED <<registry, plugins>>

\* A request settles.  Nothing awaits or handles the promise, so neither a
\* response nor a rejection reaches the class.
Settle(r, state) ==
    /\ requests[r].state = "pending"
    /\ requests' = [requests EXCEPT ![r].state = state]
    /\ UNCHANGED <<ops, trace, registry, plugins>>

Init ==
    /\ ops = <<>>
    /\ trace = <<>>
    /\ requests = <<>>
    /\ registry = {}
    /\ plugins \in PluginIndexes

Next ==
    \/ \E data \in DataValues : New(data)
    \/ \E self \in Instances, interaction \in Interactions, secret \in BOOLEAN :
           DeferResponse(self, interaction, secret)
    \/ \E self \in Instances, interaction \in Interactions,
          content \in Contents, secret \in BOOLEAN :
           SendResponse(self, interaction, content, secret)
    \/ \E i \in DOMAIN ops : SendResume(i)
    \/ \E self \in Instances, interaction \in Interactions, content \in Contents :
           EditResponse(self, interaction, content)
    \/ \E r \in DOMAIN requests, state \in {"fulfilled", "rejected"} :
           Settle(r, state)

Spec == Init /\ [][Next]_vars

(***************************************************************************)
(* Properties.                                                             *)
(***************************************************************************)
Constructions == { i \in DOMAIN ops : ops[i].kind = "new" }

\* Positions in the trace of the calls `call` made by invocation i.
Calls(i, call) == { k \in DOMAIN trace : trace[k].op = i /\ trace[k].call = call }

\* Positions of the calls `call` of invocation i that ended with `result`.
CallsEnding(i, call, result) == { k \in Calls(i, call) : trace[k].result = result }

\* The requests invocation i handed to the router for `route`.
RequestsTo(i, route) ==
    { r \in DOMAIN requests : requests[r].op = i /\ requests[r].route = route }

RequestsBy(i) == { r \in DOMAIN requests : requests[r].op = i }

ObjectShaped(data) == data.t = "object"

\* C1: for an object-shaped descriptor that manager.check accepts and whose
\* register call does not throw, construction returns, manager.register is
\* called exactly once with the new instance, exactly one POST carrying the
\* descriptor goes to the application's commands endpoint, and no other
\* method of the class registers or posts to that endpoint.
C1_RegistersAndPublishesOnce ==
    /\ \A i \in Constructions :
          ( /\ ObjectShaped(ops[i].data)
            /\ CheckAccepts(ops[i].data)
            /\ CallsEnding(i, "manager.register", "threw") = {} )
          => /\ ops[i].outcome = "returned"
             /\ Cardinality({ k \in DOMAIN trace :
                                /\ trace[k].call = "manager.register"
                                /\ trace[k].arg = ops[i].instance }) = 1
             /\ Cardinality(Calls(i, "manager.register")) = 1
             /\ Cardinality(RequestsTo(i, CommandsRoute)) = 1
             /\ \A r \in RequestsTo(i, CommandsRoute) :
                   /\ requests[r].method = "POST"
                   /\ requests[r].options = [data |-> ops[i].data]
    /\ \A k \in DOMAIN trace :
          trace[k].call \in {"manager.register", "commands.post"}
          => trace[k].op \in Constructions
    /\ \A r \in DOMAIN requests :
          requests[r].route = CommandsRoute => requests[r].op \in Constructions

\* A command was registered and published, and a helper was called afterwards.
C1_Witness ==
    \E i \in Constructions, j \in DOMAIN ops :
        /\ i < j
        /\ ops[j].kind # "new"
        /\ ops[j].outcome = "resolved"
        /\ CallsEnding(i, "manager.register", "returned") # {}
        /\ RequestsTo(i, CommandsRoute) # {}

\* C2: for a non-object descriptor argument construction fails with a type
\* error, and that construction has called neither manager.check, nor
\* manager.register, nor the plugin index, nor the logger, nor the router.
C2_NonObjectFailsBeforeAnyCall ==
    \A i \in Constructions :
        ~ObjectShaped(ops[i].data)
        => /\ ops[i].outcome = "threw"
           /\ ops[i].error.type = "TypeError"
           /\ { k \in DOMAIN trace : trace[k].op = i } = {}
           /\ RequestsBy(i) = {}

\* null was handed to a constructor after another command had been loaded.
C2_Witness ==
    \E i \in Constructions, j \in Constructions :
        /\ j < i
        /\ ops[j].outcome = "returned"
        /\ ops[i].data = Null
        /\ ops[i].outcome = "threw"

\* C3: when manager.register throws, the constructor returns normally and
\* the error thrown is passed to client.log.error exactly once.
C3_RegisterErrorLoggedOnce ==
    \A i \in Constructions :
        CallsEnding(i, "manager.register", "threw") # {}
        => /\ ops[i].outcome = "returned"
           /\ ops[i].error = NoError
           /\ Cardinality(Calls(i, "log.error")) = 1
           /\ \A k \in Calls(i, "log.error") : trace[k].arg = RegisterError

\* A second command of the same name was constructed and register threw.
C3_Witness ==
    \E i \in Constructions :
        /\ CallsEnding(i, "manager.register", "threw") # {}
        /\ Calls(i, "log.error") # {}

\* C4: a throw of manager.check leaves the constructor, and it is the only
\* failure among plugin lookup, check, register, publish and confirmation
\* that does: a construction that got as far as those steps and threw, threw
\* the error of manager.check; one whose publish request is rejected, or
\* whose register call threw, returned.
C4_OnlyCheckFailurePropagates ==
    \A i \in Constructions :
        /\ CallsEnding(i, "manager.check", "threw") # {}
           => ops[i].outcome = "threw" /\ ops[i].error = CheckError
        /\ (ops[i].outcome = "threw" /\ ObjectShaped(ops[i].data))
           => /\ ops[i].error = CheckError
              /\ CallsEnding(i, "manager.check", "threw") # {}
        /\ CallsEnding(i, "manager.register", "threw") # {}
           => ops[i].outcome = "returned"
        /\ \A r \in RequestsBy(i) :
              requests[r].state = "rejected" => ops[i].outcome = "returned"

\* A command was loaded and its publish request rejected; the next
\* construction failed in manager.check.
C4_Witness ==
    \E i \in Constructions, j \in Constructions :
        /\ \E r \in RequestsBy(i) : requests[r].state = "rejected"
        /\ ops[i].outcome = "returned"
        /\ CallsEnding(j, "manager.check", "threw") # {}
        /\ ops[j].outcome = "threw"

\* Some earlier call `call` of the same invocation ended with `result`.
Earlier(k, call, result) ==
    \E j \in 1..(k - 1) :
        /\ trace[j].op = trace[k].op
        /\ trace[j].call = call
        /\ trace[j].result = result

\* C5: within a construction the calls come in the order plugin lookup (only
\* when not internal), manager.check, manager.register, commands POST,
\* log.commands: register only after check returned, the POST only after
\* register returned, the confirmation only after the POST.
C5_CallOrder ==
    \A k \in DOMAIN trace :
        LET e == trace[k] IN
        /\ e.call = "plugins.find"
           => /\ ~Truthy(ops[e.op].instance.internal)
              /\ \A j \in 1..(k - 1) : trace[j].op # e.op
        /\ e.call = "manager.check"
           => /\ \A j \in 1..(k - 1) :
                    trace[j].op = e.op => trace[j].call = "plugins.find"
              /\ ~Truthy(ops[e.op].instance.internal)
                    => Earlier(k, "plugins.find", "returned")
        /\ e.call = "manager.register"
           => Earlier(k, "manager.check", "returned")
        /\ e.call = "commands.post"
           => Earlier(k, "manager.register", "returned")
        /\ e.call = "log.commands"
           => Earlier(k, "commands.post", "returned")

\* A plugin command went through all five steps.
C5_Witness ==
    \E i \in Constructions :
        /\ Calls(i, "plugins.find") # {}
        /\ Calls(i, "manager.check") # {}
        /\ Calls(i, "manager.register") # {}
        /\ Calls(i, "commands.post") # {}
        /\ Calls(i, "log.commands") # {}

Invocations(kind) == { i \in DOMAIN ops : ops[i].kind = kind }

\* C6: every request of sendResponse is a callback POST for the interaction
\* whose payload has type 4 and flags(secret).  Content that is not
\* object-typed is carried as `content`, with no `data` field.  Object-typed
\* content is first handed to createMessage with the interaction's channel
\* id; the payload then carries the formatter's output as `data`, with no
\* `content` field, and is posted only once the formatter has answered.
C6_SendResponsePayload ==
    \A i \in Invocations("sendResponse") :
        LET op == ops[i] IN
        /\ Cardinality(RequestsBy(i)) = (IF op.outcome = "resolved" THEN 1 ELSE 0)
        /\ \A r \in RequestsBy(i) :
              LET payload == requests[r].options.data IN
              /\ requests[r].method = "POST"
              /\ requests[r].route = CallbackRoute(op.interaction)
              /\ DOMAIN requests[r].options = {"data"}
              /\ payload.type = 4
              /\ payload.flags = Flags(op.secret)
              /\ IF Typeof(op.content) = "object"
                 THEN /\ DOMAIN payload = {"type", "flags", "data"}
                      /\ payload.data =
                            CreateMessage(op.interaction.channel_id, op.content)
                      /\ \E k \in CallsEnding(i, "callback.post", "returned") :
                            /\ \E j \in 1..(k - 1) :
                                  /\ trace[j].op = i
                                  /\ trace[j].call = "createMessage"
                                  /\ trace[j].result = "pending"
                                  /\ trace[j].arg =
                                        [channel_id |-> op.interaction.channel_id,
                                         content |-> op.content]
                            /\ Earlier(k, "createMessage", "fulfilled")
                 ELSE /\ DOMAIN payload = {"type", "flags", "content"}
                      /\ payload.content = op.content
                      /\ Calls(i, "createMessage") = {}

\* A secret response with an embed was formatted and posted.
C6_Witness ==
    \E i \in Invocations("sendResponse") :
        /\ ops[i].content = Embed
        /\ ops[i].secret
        /\ ops[i].outcome = "resolved"
        /\ RequestsBy(i) # {}

C8_DeferResponsePayload ==
    \A i \in Invocations("deferResponse") :
        /\ Cardinality(RequestsBy(i)) = 1
        /\ \A r \in RequestsBy(i) :
              LET payload == requests[r].options.data IN
              /\ requests[r].method = "POST"
              /\ requests[r].route =
                    <<"interactions", ops[i].interaction.id,
                      ops[i].interaction.token, "callback">>
              /\ payload.type = 5
              /\ payload.flags = Flags(ops[i].secret)
              /\ (payload.flags # Undefined) <=> ops[i].secret
              /\ DOMAIN payload = {"type", "flags"}

\* A secret deferral was sent.
C8_Witness ==
    \E i \in Invocations("deferResponse") :
        /\ ops[i].secret
        /\ RequestsBy(i) # {}

\* Is `p` the first plugin of the index that declares `name`, or undefined
\* when none does?
FirstDeclaring(p, name) ==
    \/ /\ p = Undefined
       /\ \A k \in DOMAIN plugins : ~PluginDeclares(plugins[k], name)
    \/ \E k \in DOMAIN plugins :
          /\ p = plugins[k]
          /\ PluginDeclares(plugins[k], name)
          /\ \A j \in 1..(k - 1) : ~PluginDeclares(plugins[j], name)

\* C9: a constructed command has a plugin only if it is not internal.  For
\* an internal descriptor the plugin index is never queried and plugin stays
\* unset; otherwise plugin is the first plugin of the index whose command
\* list contains the name, or unset when no plugin declares it.
C9_PluginOnlyWhenNotInternal ==
    \A i \in Constructions :
        ops[i].instance # Undefined
        => LET inst == ops[i].instance IN
           IF Truthy(inst.internal)
           THEN inst.plugin = Undefined /\ Calls(i, "plugins.find") = {}
           ELSE /\ Cardinality(Calls(i, "plugins.find")) = 1
                /\ FirstDeclaring(inst.plugin, inst.name)

\* An internal command whose name a plugin declares was constructed, and so
\* was a plugin command that two plugins declare.
C9_Witness ==
    \E i \in Constructions, j \in Constructions :
        /\ ops[i].instance # Undefined
        /\ Truthy(ops[i].instance.internal)
        /\ \E k \in DOMAIN plugins :
              PluginDeclares(plugins[k], ops[i].instance.name)
        /\ ops[j].instance # Undefined
        /\ ops[j].instance.plugin = PluginB

\* C10: a construction that did not get past registration (manager.check
\* threw, or manager.register threw) has posted nothing to the commands
\* endpoint and written no confirmation; a commands POST or a confirmation
\* implies that check and register both returned for that descriptor.
C10_NoPublishWithoutRegistration ==
    /\ \A i \in Constructions :
          ( \/ CallsEnding(i, "manager.check", "threw") # {}
            \/ CallsEnding(i, "manager.register", "threw") # {} )
          => /\ RequestsTo(i, CommandsRoute) = {}
             /\ Calls(i, "commands.post") = {}
             /\ Calls(i, "log.commands") = {}
    /\ \A k \in DOMAIN trace :
          trace[k].call \in {"commands.post", "log.commands"}
          => /\ CallsEnding(trace[k].op, "manager.check", "returned") # {}
             /\ CallsEnding(trace[k].op, "manager.register", "returned") # {}
             /\ CallsEnding(trace[k].op, "manager.register", "threw") = {}

\* One command was published; the next, of the same name, was refused by
\* register and published nothing.
C10_Witness ==
    \E i \in Constructions, j \in Constructions :
        /\ RequestsTo(i, CommandsRoute) # {}
        /\ CallsEnding(j, "manager.register", "threw") # {}
        /\ RequestsTo(j, CommandsRoute) = {}

====
